---- MODULE Spec2Model ----
(***************************************************************************)
(* The verification scripts of the rocket-launch simulation, as one state  *)
(* machine.  Each script is a straight-line Python program that drives a   *)
(* browser page through the Playwright driver; the driver and the          *)
(* application behind it are the environment: every driver call either     *)
(* returns (with a value drawn from the values the application can give)   *)
(* or raises.  A script is written down as a table from source line to the *)
(* statement on that line; the program counter pc is the source line about *)
(* to execute, and the Do* actions are the Python statements' semantics    *)
(* (sequencing, try/except, if, for/break, assert, return).                *)
(***************************************************************************)
EXTENDS Integers, Sequences, FiniteSets, TLC

VARIABLES script, pc, regs, trace, outcome

vars == <<script, pc, regs, trace, outcome>>

----------------------------------------------------------------------------
(* Program constants and model bounds *)

\* for i in range(20)
PollLimit == 20
\* time.sleep(0.5), in tenths of a second
SleepDs == 5
\* if box['width'] <= 500
WidthLimit == 500
\* bounding-box widths the application may report: WidthLimit +- WidthSlack
WidthSlack == 1
\* the most elements a locator may match
MaxCount == 2

Widths == (WidthLimit - WidthSlack)..(WidthLimit + WidthSlack)

NoBox == [some |-> FALSE, width |-> 0]

Boxes == {NoBox} \cup {[some |-> TRUE, width |-> w] : w \in Widths}

----------------------------------------------------------------------------
(* Statements.  ok: the line executed next; h: the line of the except      *)
(* clause that catches an exception raised here (0: none, the exception    *)
(* leaves the script); alt: the line taken when a test is false.  A line   *)
(* number of 0 for ok means the script's function returns.                 *)

PyPrint(msg, ok) == [op |-> "print", kind |-> "print", sel |-> msg, ok |-> ok]

Call(kind, sel, ok, h) == [op |-> "call", kind |-> kind, sel |-> sel, ok |-> ok, h |-> h]

Read(kind, sel, reg, ok, h) ==
    [op |-> "read", kind |-> kind, sel |-> sel, reg |-> reg, ok |-> ok, h |-> h]

Test(kind, sel, reg, rel, ok, alt, h) ==
    [op |-> "test", kind |-> kind, sel |-> sel, reg |-> reg, rel |-> rel,
     ok |-> ok, alt |-> alt, h |-> h]

If(reg, rel, ok, alt) == [op |-> "if", reg |-> reg, rel |-> rel, ok |-> ok, alt |-> alt]

For(reg, n, ok, alt) == [op |-> "for", reg |-> reg, n |-> n, ok |-> ok, alt |-> alt]

Break(ok) == [op |-> "break", ok |-> ok]

Sleep(ds, ok) == [op |-> "sleep", kind |-> "sleep", sel |-> "time.sleep", ds |-> ds, ok |-> ok]

AssertStmt(reg, rel, ok, h) ==
    [op |-> "assert", kind |-> "assert", sel |-> rel, reg |-> reg, rel |-> rel,
     ok |-> ok, h |-> h]

Close(ok) == [op |-> "close", kind |-> "close", sel |-> "browser", ok |-> ok]

Return == [op |-> "return"]

----------------------------------------------------------------------------
(* tests/verify_exhaust.py, run(): the lines before the liftoff poll *)
ExhaustHead ==
       (11 :> PyPrint("Navigating to http://localhost:8080...", 13))
    @@ (13 :> Call("goto", "http://localhost:8080", 19, 15))
    @@ (15 :> PyPrint("Navigation failed", 16))
    @@ (16 :> Return)
    @@ (19 :> Call("wait_for_timeout", "2000", 22, 0))
    @@ (22 :> PyPrint("Clicking START...", 24))
    @@ (24 :> Call("click", "#start-btn", 25, 27))
    @@ (25 :> PyPrint("Clicked START", 30))
    @@ (27 :> PyPrint("Error clicking START", 30))
    @@ (30 :> Call("wait_for_timeout", "1000", 33, 0))
    @@ (33 :> PyPrint("Clicking GOT IT...", 35))
    @@ (35 :> Call("click", "#tooltip-dismiss", 36, 38))
    @@ (36 :> PyPrint("Clicked GOT IT", 41))
    @@ (38 :> PyPrint("Error clicking GOT IT", 41))
    @@ (41 :> PyPrint("Launching...", 42))
    @@ (42 :> Call("evaluate", "window.game.launch()", 43, 0))
    @@ (43 :> Call("evaluate", "window.game.setThrottle(1.0)", 46, 0))
    @@ (46 :> PyPrint("Waiting for liftoff...", 47))

(* the liftoff poll without its break: polling goes on after liftoff was seen *)
ExhaustPollNoBreak ==
       (47 :> For("i", PollLimit, 48, 55))
    @@ (48 :> Read("evaluate", "window.game.missionState.liftoff", "liftoff", 49, 0))
    @@ (49 :> If("liftoff", "truthy", 50, 52))
    @@ (50 :> PyPrint("Liftoff confirmed!", 52))
    @@ (51 :> Break(55))
    @@ (52 :> Sleep(SleepDs, 47))

(* the liftoff poll that, once exhausted, skips the ascent wait and the time warp *)
ExhaustPollSkipWarp ==
       (47 :> For("i", PollLimit, 48, 63))
    @@ (48 :> Read("evaluate", "window.game.missionState.liftoff", "liftoff", 49, 0))
    @@ (49 :> If("liftoff", "truthy", 50, 52))
    @@ (50 :> PyPrint("Liftoff confirmed!", 51))
    @@ (51 :> Break(55))
    @@ (52 :> Sleep(SleepDs, 47))

(* tests/verify_exhaust.py, run(): the liftoff poll *)
ExhaustPoll ==
       (47 :> For("i", PollLimit, 48, 55))
    @@ (48 :> Read("evaluate", "window.game.missionState.liftoff", "liftoff", 49, 0))
    @@ (49 :> If("liftoff", "truthy", 50, 52))
    @@ (50 :> PyPrint("Liftoff confirmed!", 51))
    @@ (51 :> Break(55))
    @@ (52 :> Sleep(SleepDs, 47))

(* the lines after the poll with the browser closed before the screenshot *)
ExhaustTailCloseFirst ==
       (55 :> PyPrint("Ascending...", 56))
    @@ (56 :> Call("wait_for_timeout", "5000", 59, 0))
    @@ (59 :> PyPrint("Warping...", 60))
    @@ (60 :> Call("evaluate", "window.game.timeScale = 10.0", 63, 0))
    @@ (63 :> PyPrint("Waiting for trails...", 64))
    @@ (64 :> Call("wait_for_timeout", "2000", 71, 0))
    @@ (71 :> Close(67))
    @@ (67 :> PyPrint("Taking screenshot...", 68))
    @@ (68 :> Call("screenshot", "exhaust_v3.png", 69, 0))
    @@ (69 :> PyPrint("Screenshot saved to exhaust_v3.png", 0))

(* tests/verify_exhaust.py, run(): the lines after the liftoff poll *)
ExhaustTail ==
       (55 :> PyPrint("Ascending...", 56))
    @@ (56 :> Call("wait_for_timeout", "5000", 59, 0))
    @@ (59 :> PyPrint("Warping...", 60))
    @@ (60 :> Call("evaluate", "window.game.timeScale = 10.0", 63, 0))
    @@ (63 :> PyPrint("Waiting for trails...", 64))
    @@ (64 :> Call("wait_for_timeout", "2000", 67, 0))
    @@ (67 :> PyPrint("Taking screenshot...", 68))
    @@ (68 :> Call("screenshot", "exhaust_v3.png", 69, 0))
    @@ (69 :> PyPrint("Screenshot saved to exhaust_v3.png", 71))
    @@ (71 :> Close(0))

ExhaustProg == ExhaustHead @@ ExhaustPoll @@ ExhaustTail

(* verification/verify_script_editor.py, run(playwright) *)
ScriptEditorProg ==
       (12 :> Call("goto", "http://localhost:8080", 16, 56))
    @@ (16 :> Call("wait_for", "#start-btn visible", 18, 56))
    @@ (18 :> PyPrint("Clicking Start Button...", 19))
    @@ (19 :> Call("click", "#start-btn", 22, 56))
    @@ (22 :> PyPrint("Waiting for splash to hide...", 24))
    @@ (24 :> Call("wait_for", "#splash-screen hidden", 25, 27))
    @@ (25 :> PyPrint("Splash hidden.", 31))
    @@ (27 :> PyPrint("Splash did NOT hide.", 28))
    @@ (28 :> Call("screenshot", "verification/splash_stuck.png", 31, 56))
    @@ (31 :> Call("press", "F", 36, 56))
    @@ (36 :> Call("wait_for", "#script-editor-modal visible", 37, 52))
    @@ (37 :> PyPrint("Modal visible.", 40))
    @@ (40 :> Call("evaluate", "script-preset-select options", 46, 52))
    @@ (46 :> PyPrint("Options found:", 49))
    @@ (49 :> Call("screenshot", "verification/script_editor.png", 58, 52))
    @@ (52 :> PyPrint("Modal not found", 53))
    @@ (53 :> Call("screenshot", "verification/no_modal.png", 58, 56))
    @@ (56 :> PyPrint("Error", 58))
    @@ (58 :> Close(0))

(* verification/verify_csp.py, run(playwright) *)
CspProg ==
       (9 :> PyPrint("Verifying analysis.html...", 10))
    @@ (10 :> Call("goto", "http://localhost:8080/analysis.html", 11, 0))
    @@ (11 :> Call("wait_for_load_state", "networkidle", 14, 0))
    @@ (14 :> Read("evaluate", "meta Content-Security-Policy content", "csp", 15, 0))
    @@ (15 :> PyPrint("Analysis CSP", 16))
    @@ (16 :> AssertStmt("csp", "has default-src 'self'", 17, 0))
    @@ (17 :> AssertStmt("csp", "has script-src 'self'", 19, 0))
    @@ (19 :> Call("screenshot", "verification/analysis.png", 20, 0))
    @@ (20 :> PyPrint("Screenshot saved to verification/analysis.png", 23))
    @@ (23 :> PyPrint("Verifying telemetry.html...", 24))
    @@ (24 :> Call("goto", "http://localhost:8080/telemetry.html", 25, 0))
    @@ (25 :> Call("wait_for_load_state", "networkidle", 28, 0))
    @@ (28 :> Read("evaluate", "meta Content-Security-Policy content", "csp", 29, 0))
    @@ (29 :> PyPrint("Telemetry CSP", 30))
    @@ (30 :> AssertStmt("csp", "has default-src 'self'", 31, 0))
    @@ (31 :> AssertStmt("csp", "has script-src 'self'", 33, 0))
    @@ (33 :> Call("screenshot", "verification/telemetry.png", 34, 0))
    @@ (34 :> PyPrint("Screenshot saved to verification/telemetry.png", 36))
    @@ (36 :> Close(0))

(* the start step with its fallback guarded: a failed fallback is passed over *)
MissionControlStartGuardedFallback ==
       (10 :> PyPrint("Navigating to game...", 11))
    @@ (11 :> Call("goto", "http://localhost:8080", 14, 0))
    @@ (14 :> PyPrint("Waiting for splash screen...", 16))
    @@ (16 :> Call("wait_for", "#splash-screen visible", 19, 0))
    @@ (19 :> PyPrint("Waiting for JS to load...", 20))
    @@ (20 :> Call("wait_for_timeout", "3000", 23, 0))
    @@ (23 :> PyPrint("Clicking Start...", 25))
    @@ (25 :> Call("click", "#start-btn", 31, 27))
    @@ (27 :> PyPrint("Standard click failed/timeout, trying JS click...", 28))
    @@ (28 :> Call("evaluate", "getElementById('start-btn').click()", 31, 31))
    @@ (31 :> PyPrint("Waiting for splash to hide...", 32))
    @@ (32 :> Call("wait_for", "#splash-screen hidden", 35, 0))

(* verification/verify_mission_control.py: navigation, splash and the start click *)
MissionControlStart ==
       (10 :> PyPrint("Navigating to game...", 11))
    @@ (11 :> Call("goto", "http://localhost:8080", 14, 0))
    @@ (14 :> PyPrint("Waiting for splash screen...", 16))
    @@ (16 :> Call("wait_for", "#splash-screen visible", 19, 0))
    @@ (19 :> PyPrint("Waiting for JS to load...", 20))
    @@ (20 :> Call("wait_for_timeout", "3000", 23, 0))
    @@ (23 :> PyPrint("Clicking Start...", 25))
    @@ (25 :> Call("click", "#start-btn", 31, 27))
    @@ (27 :> PyPrint("Standard click failed/timeout, trying JS click...", 28))
    @@ (28 :> Call("evaluate", "getElementById('start-btn').click()", 31, 0))
    @@ (31 :> PyPrint("Waiting for splash to hide...", 32))
    @@ (32 :> Call("wait_for", "#splash-screen hidden", 35, 0))

(* the onboarding step with the forced removal done only after the fallback *)
MissionControlOnboardingRemoveInFallback ==
       (35 :> Call("wait_for_timeout", "1000", 36, 0))
    @@ (36 :> PyPrint("Checking for onboarding...", 40))
    @@ (40 :> Read("evaluate", "tooltip-overlay classList.contains('visible')",
                   "is_visible", 42, 0))
    @@ (42 :> If("is_visible", "truthy", 43, 53))
    @@ (43 :> PyPrint("Onboarding visible, dismissing...", 45))
    @@ (45 :> Call("click", "#tooltip-dismiss", 53, 47))
    @@ (47 :> Call("evaluate", "getElementById('tooltip-dismiss').click()", 49, 0))
    @@ (49 :> Call("wait_for_timeout", "500", 50, 0))
    @@ (50 :> Call("evaluate", "tooltip-overlay classList.remove('visible')", 53, 0))

(* verification/verify_mission_control.py: the onboarding overlay *)
MissionControlOnboarding ==
       (35 :> Call("wait_for_timeout", "1000", 36, 0))
    @@ (36 :> PyPrint("Checking for onboarding...", 40))
    @@ (40 :> Read("evaluate", "tooltip-overlay classList.contains('visible')",
                   "is_visible", 42, 0))
    @@ (42 :> If("is_visible", "truthy", 43, 53))
    @@ (43 :> PyPrint("Onboarding visible, dismissing...", 45))
    @@ (45 :> Call("click", "#tooltip-dismiss", 49, 47))
    @@ (47 :> Call("evaluate", "getElementById('tooltip-dismiss').click()", 49, 0))
    @@ (49 :> Call("wait_for_timeout", "500", 50, 0))
    @@ (50 :> Call("evaluate", "tooltip-overlay classList.remove('visible')", 53, 0))

(* verification/verify_mission_control.py: opening Mission Control, screenshot, close *)
MissionControlOpen ==
       (53 :> PyPrint("Waiting for Mission Control button...", 55))
    @@ (55 :> Call("wait_for", "#mission-control-btn visible", 58, 0))
    @@ (58 :> PyPrint("Opening Mission Control...", 60))
    @@ (60 :> Call("click", "#mission-control-btn", 65, 62))
    @@ (62 :> Call("evaluate", "getElementById('mission-control-btn').click()", 65, 0))
    @@ (65 :> PyPrint("Waiting for map render...", 66))
    @@ (66 :> Call("wait_for_timeout", "2000", 69, 0))
    @@ (69 :> PyPrint("Taking screenshot...", 70))
    @@ (70 :> Call("screenshot", "verification/mission_control.png", 72, 0))
    @@ (72 :> Close(73))
    @@ (73 :> PyPrint("Done!", 0))

(* verification/verify_mission_control.py, verify_mission_control() *)
MissionControlProg == MissionControlStart @@ MissionControlOnboarding @@ MissionControlOpen

(* the width check with its comparison reversed *)
WidthOkReversed(w) == w >= WidthLimit

(* verification/verify_maneuver_planner.py, the width check of line 46 *)
WidthOk(w) == w <= WidthLimit

(* verification/verify_maneuver_planner.py, verify_maneuver_planner() *)
ManeuverPlannerProg ==
       (9 :> PyPrint("Navigating to http://localhost:8080", 10))
    @@ (10 :> Call("goto", "http://localhost:8080", 13, 0))
    @@ (13 :> PyPrint("Waiting for start button...", 16))
    @@ (16 :> Call("wait_for", "#start-btn visible", 17, 20))
    @@ (17 :> Call("click", "#start-btn", 18, 20))
    @@ (18 :> PyPrint("Clicked start button.", 25))
    @@ (20 :> PyPrint("Could not click start button", 22))
    @@ (22 :> Call("screenshot", "verification/debug_start.png", 25, 0))
    @@ (25 :> Call("wait_for_timeout", "2000", 28, 0))
    @@ (28 :> PyPrint("Pressing 'o'...", 29))
    @@ (29 :> Call("press", "o", 32, 0))
    @@ (32 :> PyPrint("Waiting for Maneuver Planner modal...", 35))
    @@ (35 :> Call("wait_for", "#maneuver-planner-modal visible", 36, 54))
    @@ (36 :> PyPrint("Maneuver Planner Modal appeared.", 40))
    @@ (40 :> Test("count", ".maneuver-planner-content", "count", "positive", 41, 51, 54))
    @@ (41 :> PyPrint("Found element with class .maneuver-planner-content", 43))
    @@ (43 :> Read("bounding_box", ".maneuver-planner-content", "box", 44, 54))
    @@ (44 :> If("box", "some", 45, 58))
    @@ (45 :> PyPrint("Bounding box width", 46))
    @@ (46 :> If("box", "width within limit", 47, 49))
    @@ (47 :> PyPrint("Width is within limit.", 58))
    @@ (49 :> PyPrint("Width exceeds 500px limit!", 58))
    @@ (51 :> PyPrint("Element with class .maneuver-planner-content NOT found!", 58))
    @@ (54 :> PyPrint("Maneuver Planner Modal did not appear", 58))
    @@ (58 :> Call("screenshot", "verification/maneuver_planner.png", 59, 0))
    @@ (59 :> PyPrint("Screenshot taken at verification/maneuver_planner.png", 61))
    @@ (61 :> Close(0))

(* verification/verify_vab_tabs.py, run() *)
VabTabsProg ==
       (7 :> Call("goto", "http://localhost:8080", 11, 0))
    @@ (11 :> Call("wait_for_selector", "#open-vab-btn", 12, 0))
    @@ (12 :> Call("click", "#open-vab-btn", 16, 0))
    @@ (16 :> Call("expect", ".vab-editor to_be_visible", 20, 0))
    @@ (20 :> Call("expect", ".vab-cat-tab first to_be_visible", 23, 0))
    @@ (23 :> Read("get_attribute", ".vab-cat-tab first role", "role", 24, 0))
    @@ (24 :> PyPrint("Tab role", 25))
    @@ (25 :> AssertStmt("role", "is tab", 29, 0))
    @@ (29 :> Read("text_content", ".vab-cat-tab first", "text", 30, 0))
    @@ (30 :> PyPrint("Tab text", 32))
    @@ (32 :> AssertStmt("text", "has fire", 36, 0))
    @@ (36 :> Call("expect", ".vab-category-tabs role tablist", 40, 0))
    @@ (40 :> Call("expect", "#vab-parts-list role tabpanel", 43, 0))
    @@ (43 :> Call("screenshot", "verification/vab_tabs.png", 44, 0))
    @@ (44 :> PyPrint("Verification successful!", 46))
    @@ (46 :> Close(0))

(* the accessibility script with the focus check of line 35 guarded: a failure is passed over *)
VabA11yProgGuardedFocus ==
       (7 :> Call("goto", "http://localhost:8080", 12, 0))
    @@ (12 :> Call("click", "VEHICLE ASSEMBLY (VAB)", 15, 0))
    @@ (15 :> Call("wait_for_selector", ".vab-editor", 22, 0))
    @@ (22 :> Call("click", ".vab-part-item nth(0)", 24, 0))
    @@ (24 :> Call("expect", "first to_have_class selected", 25, 0))
    @@ (25 :> Call("expect", "first aria-selected true", 29, 0))
    @@ (29 :> Call("focus", ".vab-part-item nth(0)", 32, 0))
    @@ (32 :> Call("press", "Tab", 35, 0))
    @@ (35 :> Call("expect", "second to_be_focused", 38, 38))
    @@ (38 :> Call("press", "Enter", 41, 0))
    @@ (41 :> Call("expect", "second to_have_class selected", 42, 0))
    @@ (42 :> Call("expect", "second aria-selected true", 45, 0))
    @@ (45 :> Call("expect", "first not_to_have_class selected", 46, 0))
    @@ (46 :> Call("expect", "first aria-selected false", 49, 0))
    @@ (49 :> Call("screenshot", "verification/vab_accessibility.png", 51, 0))
    @@ (51 :> Close(0))

(* verification/verify_vab_a11y.py, run() *)
VabA11yProg ==
       (7 :> Call("goto", "http://localhost:8080", 12, 0))
    @@ (12 :> Call("click", "VEHICLE ASSEMBLY (VAB)", 15, 0))
    @@ (15 :> Call("wait_for_selector", ".vab-editor", 22, 0))
    @@ (22 :> Call("click", ".vab-part-item nth(0)", 24, 0))
    @@ (24 :> Call("expect", "first to_have_class selected", 25, 0))
    @@ (25 :> Call("expect", "first aria-selected true", 29, 0))
    @@ (29 :> Call("focus", ".vab-part-item nth(0)", 32, 0))
    @@ (32 :> Call("press", "Tab", 35, 0))
    @@ (35 :> Call("expect", "second to_be_focused", 38, 0))
    @@ (38 :> Call("press", "Enter", 41, 0))
    @@ (41 :> Call("expect", "second to_have_class selected", 42, 0))
    @@ (42 :> Call("expect", "second aria-selected true", 45, 0))
    @@ (45 :> Call("expect", "first not_to_have_class selected", 46, 0))
    @@ (46 :> Call("expect", "first aria-selected false", 49, 0))
    @@ (49 :> Call("screenshot", "verification/vab_accessibility.png", 51, 0))
    @@ (51 :> Close(0))

(* verify_hud.py, test_hud(page) inside the try/except/finally of the main block *)
HudProg ==
       (5 :> PyPrint("Navigating to http://localhost:8080", 6))
    @@ (6 :> Call("goto", "http://localhost:8080", 9, 47))
    @@ (9 :> PyPrint("Looking for start button", 11))
    @@ (11 :> Read("wait_for_selector", "#start-btn", "start_btn", 12, 18))
    @@ (12 :> If("start_btn", "truthy", 13, 21))
    @@ (13 :> PyPrint("Clicking start button", 14))
    @@ (14 :> Call("click", "#start-btn", 16, 18))
    @@ (16 :> Sleep(20, 21))
    @@ (18 :> PyPrint("Start button not found or error", 21))
    @@ (21 :> PyPrint("Waiting for #hud-wind-speed", 22))
    @@ (22 :> Call("wait_for_selector", "#hud-wind-speed", 26, 47))
    @@ (26 :> Read("text_content", "#hud-wind-speed", "content", 27, 47))
    @@ (27 :> PyPrint("Wind Speed", 29))
    @@ (29 :> If("content", "empty or zero", 30, 33))
    @@ (30 :> PyPrint("Wind speed content is 0 or empty", 33))
    @@ (33 :> Call("evaluate", "getComputedStyle(element).color", 34, 47))
    @@ (34 :> PyPrint("Wind Speed Color", 37))
    @@ (37 :> PyPrint("Taking screenshot", 38))
    @@ (38 :> Call("screenshot", "verification_hud_ingame.png", 49, 47))
    @@ (47 :> PyPrint("Error", 49))
    @@ (49 :> Close(0))

Scripts == {"verify_exhaust", "verify_script_editor", "verify_csp",
            "verify_mission_control", "verify_maneuver_planner",
            "verify_vab_tabs", "verify_vab_a11y", "verify_hud"}

Prog(s) ==
    CASE s = "verify_exhaust" -> ExhaustProg
      [] s = "verify_script_editor" -> ScriptEditorProg
      [] s = "verify_csp" -> CspProg
      [] s = "verify_mission_control" -> MissionControlProg
      [] s = "verify_maneuver_planner" -> ManeuverPlannerProg
      [] s = "verify_vab_tabs" -> VabTabsProg
      [] s = "verify_vab_a11y" -> VabA11yProg
      [] s = "verify_hud" -> HudProg

(* the first statement executed once the browser and the page exist *)
Entry(s) ==
    CASE s = "verify_exhaust" -> 11
      [] s = "verify_script_editor" -> 12
      [] s = "verify_csp" -> 9
      [] s = "verify_mission_control" -> 10
      [] s = "verify_maneuver_planner" -> 9
      [] s = "verify_vab_tabs" -> 7
      [] s = "verify_vab_a11y" -> 7
      [] s = "verify_hud" -> 5

----------------------------------------------------------------------------
(* Values.  A string that the script only searches for substrings is the   *)
(* set of the searched substrings it contains; None is the string "None".  *)

Dom(reg) ==
    CASE reg = "liftoff" -> BOOLEAN
      [] reg = "is_visible" -> BOOLEAN
      [] reg = "count" -> 0..MaxCount
      [] reg = "box" -> Boxes
      [] reg = "csp" -> SUBSET {"default-src 'self'", "script-src 'self'"}
      [] reg = "role" -> {"tab", "button", "None"}
      [] reg = "text" -> SUBSET {"fire"}
      [] reg = "start_btn" -> {TRUE}
      [] reg = "content" -> {"None", "", "0 m/s", "12 m/s"}

InitRegs ==
    [i |-> 0, liftoff |-> FALSE, is_visible |-> FALSE, count |-> 0, box |-> NoBox,
     csp |-> {}, role |-> "None", text |-> {}, start_btn |-> FALSE, content |-> "None"]

(* the conditions of the scripts' if and assert statements *)
Holds(rel, v) ==
    CASE rel = "truthy" -> v = TRUE
      [] rel = "positive" -> v > 0
      [] rel = "some" -> v.some
      [] rel = "width within limit" -> WidthOk(v.width)
      [] rel = "has default-src 'self'" -> "default-src 'self'" \in v
      [] rel = "has script-src 'self'" -> "script-src 'self'" \in v
      [] rel = "is tab" -> v = "tab"
      [] rel = "has fire" -> "fire" \in v
      [] rel = "empty or zero" -> v \in {"None", "", "0 m/s"}

(* a range that yields one value too many *)
RangeHasOffByOne(i, n) == i <= n

(* range(n): whether the iterator at position i yields another value *)
RangeHas(i, n) == i < n

----------------------------------------------------------------------------
(* State.  script: the script being run; pc: the source line about to      *)
(* execute, 0 once the script has ended; regs: the script's local          *)
(* variables; trace: every driver call, print, sleep and close so far, in  *)
(* order; outcome: how the script ended.                                   *)

Ins == Prog(script)[pc]

Ev(res, val) ==
    [line |-> pc, kind |-> Ins.kind, sel |-> Ins.sel, res |-> res, val |-> val]

Init ==
    /\ script \in Scripts
    /\ pc = Entry(script)
    /\ regs = InitRegs
    /\ trace = <<>>
    /\ outcome = "running"

(* control reaches line l; l = 0: the function returns *)
GoTo(l) ==
    /\ pc' = l
    /\ outcome' = IF l = 0 THEN "returned" ELSE outcome

(* an exception is raised at the current line: the enclosing except clause *)
(* at line h takes it, or (h = 0) it leaves the script uncaught            *)
Raise(h) ==
    /\ pc' = h
    /\ outcome' = IF h = 0 THEN "uncaught" ELSE outcome

Running == pc # 0

(* print(...) *)
DoPrint ==
    /\ Running /\ Ins.op = "print"
    /\ trace' = Append(trace, Ev("ok", "-"))
    /\ GoTo(Ins.ok)
    /\ UNCHANGED <<script, regs>>

(* a driver call whose value the script does not use: returns or raises *)
DoCall ==
    /\ Running /\ Ins.op = "call"
    /\ \E res \in {"ok", "raise"} :
          /\ trace' = Append(trace, Ev(res, "-"))
          /\ IF res = "ok" THEN GoTo(Ins.ok) ELSE Raise(Ins.h)
    /\ UNCHANGED <<script, regs>>

(* x = <driver call>: returns a value, which is assigned, or raises *)
DoRead ==
    /\ Running /\ Ins.op = "read"
    /\ \/ \E v \in Dom(Ins.reg) :
             /\ trace' = Append(trace, Ev("ok", v))
             /\ regs' = [regs EXCEPT ![Ins.reg] = v]
             /\ GoTo(Ins.ok)
       \/ /\ trace' = Append(trace, Ev("raise", "-"))
          /\ regs' = regs
          /\ Raise(Ins.h)
    /\ UNCHANGED script

(* if <driver call> <rel>: the call returns a value, which is tested, or raises *)
DoTest ==
    /\ Running /\ Ins.op = "test"
    /\ \/ \E v \in Dom(Ins.reg) :
             /\ trace' = Append(trace, Ev("ok", v))
             /\ regs' = [regs EXCEPT ![Ins.reg] = v]
             /\ GoTo(IF Holds(Ins.rel, v) THEN Ins.ok ELSE Ins.alt)
       \/ /\ trace' = Append(trace, Ev("raise", "-"))
          /\ regs' = regs
          /\ Raise(Ins.h)
    /\ UNCHANGED script

(* if <local variable> <rel>: *)
DoIf ==
    /\ Running /\ Ins.op = "if"
    /\ GoTo(IF Holds(Ins.rel, regs[Ins.reg]) THEN Ins.ok ELSE Ins.alt)
    /\ UNCHANGED <<script, regs, trace>>

(* for i in range(n): the next iteration starts, or the loop is exhausted *)
DoFor ==
    /\ Running /\ Ins.op = "for"
    /\ IF RangeHas(regs[Ins.reg], Ins.n)
       THEN /\ regs' = [regs EXCEPT ![Ins.reg] = @ + 1]
            /\ GoTo(Ins.ok)
       ELSE /\ regs' = regs
            /\ GoTo(Ins.alt)
    /\ UNCHANGED <<script, trace>>

(* break *)
DoBreak ==
    /\ Running /\ Ins.op = "break"
    /\ GoTo(Ins.ok)
    /\ UNCHANGED <<script, regs, trace>>

(* time.sleep(...) *)
DoSleep ==
    /\ Running /\ Ins.op = "sleep"
    /\ trace' = Append(trace, Ev("ok", Ins.ds))
    /\ GoTo(Ins.ok)
    /\ UNCHANGED <<script, regs>>

(* assert <local variable> <rel>: passes, or raises AssertionError *)
DoAssert ==
    /\ Running /\ Ins.op = "assert"
    /\ IF Holds(Ins.rel, regs[Ins.reg])
       THEN /\ trace' = Append(trace, Ev("ok", "-"))
            /\ GoTo(Ins.ok)
       ELSE /\ trace' = Append(trace, Ev("raise", "-"))
            /\ Raise(Ins.h)
    /\ UNCHANGED <<script, regs>>

(* browser.close() *)
DoClose ==
    /\ Running /\ Ins.op = "close"
    /\ trace' = Append(trace, Ev("ok", "-"))
    /\ GoTo(Ins.ok)
    /\ UNCHANGED <<script, regs>>

(* return *)
DoReturn ==
    /\ Running /\ Ins.op = "return"
    /\ GoTo(0)
    /\ UNCHANGED <<script, regs, trace>>

Next ==
    \/ DoPrint \/ DoCall \/ DoRead \/ DoTest \/ DoIf \/ DoFor
    \/ DoBreak \/ DoSleep \/ DoAssert \/ DoClose \/ DoReturn

Spec == Init /\ [][Next]_vars

(* The Python interpreter always runs the next statement: a driver call    *)
(* returns or raises within its timeout and time.sleep returns.            *)
FairSpec == Spec /\ WF_vars(Next)

----------------------------------------------------------------------------
(* Reading the trace *)

Idx == 1..Len(trace)

\* the events recorded at source line l
At(l) == {k \in Idx : trace[k].line = l}

Attempted(l) == At(l) # {}

Raised(l) == \E k \in At(l) : trace[k].res = "raise"

Succeeded(l) == \E k \in At(l) : trace[k].res = "ok"

\* the value the (single) successful read at line l returned
ValAt(l) == trace[CHOOSE k \in At(l) : trace[k].res = "ok"].val

OfKind(kind) == {k \in Idx : trace[k].kind = kind}

CloseCount == Cardinality(OfKind("close"))

ScreenshotCount == Cardinality(OfKind("screenshot"))

Ended == pc = 0

----------------------------------------------------------------------------
(* C1.  In every run, whichever way it ends (normal completion, early      *)
(* return after a failed step, or an exception raised by a step),          *)
(* browser.close() has been called exactly once when the run has ended.    *)
C1_ClosedExactlyOnce == Ended => CloseCount = 1

(* C2.  In every run at least one page.screenshot call has been made by    *)
(* the time the run ends, even when the run aborts on its first step.      *)
C2_ScreenshotBeforeEnd == Ended => ScreenshotCount >= 1

\* verify_mission_control: <<line of the primary click, line of its scripted fallback>>
FallbackPairs == {<<25, 28>>, <<45, 47>>, <<60, 62>>}

(* C3.  In verify_mission_control, for each of the three clicks that has   *)
(* a fallback: the fallback is invoked only if the primary click raised,   *)
(* it has been invoked in every ended run whose primary click raised, and  *)
(* a fallback that itself raises does not end the run with an uncaught     *)
(* error.                                                                  *)
C3_FallbackContract ==
    script = "verify_mission_control" =>
        \A pf \in FallbackPairs :
            /\ Attempted(pf[2]) => Raised(pf[1])
            /\ (Ended /\ Raised(pf[1])) => Attempted(pf[2])
            /\ Raised(pf[2]) => outcome # "uncaught"

\* the interactions with the application, as opposed to prints and sleeps
Actions == {"click", "evaluate", "press", "focus", "screenshot", "wait_for",
            "wait_for_timeout", "wait_for_selector"}

(* C4.  When a non-critical step has failed, the statement that follows    *)
(* its try/except has been executed by the time the run ends (START and    *)
(* GOT IT clicks in verify_exhaust, start-button wait/click and modal wait *)
(* in verify_maneuver_planner, splash-hide wait in verify_script_editor);  *)
(* and once the navigation of verify_exhaust has failed no later step      *)
(* performs an action.                                                     *)
C4_StepIsolation ==
    /\ (script = "verify_exhaust" /\ Ended /\ Raised(24)) => Attempted(30)
    /\ (script = "verify_exhaust" /\ Ended /\ Raised(35)) => Attempted(41)
    /\ (script = "verify_maneuver_planner" /\ Ended /\ (Raised(16) \/ Raised(17)))
          => Attempted(25)
    /\ (script = "verify_maneuver_planner" /\ Ended /\ Raised(35)) => Attempted(58)
    /\ (script = "verify_script_editor" /\ Ended /\ Raised(24)) => Attempted(31)
    /\ (script = "verify_exhaust" /\ Raised(13))
          => \A k \in Idx : trace[k].line > 13 => trace[k].kind \notin Actions

----------------------------------------------------------------------------
(* The liftoff poll of verify_exhaust (lines 47-52) *)

\* evaluations of window.game.missionState.liftoff made so far, in trace order
PollEvals == At(48)

PollSleeps == At(52)

InPoll == script = "verify_exhaust" /\ pc \in 47..52

\* the k-th evaluation returned true
TrueAt(k) == trace[k].res = "ok" /\ trace[k].val = TRUE

LiftoffSeen == \E k \in PollEvals : TrueAt(k)

C5_Bounds ==
    script = "verify_exhaust" =>
        /\ Cardinality(PollEvals) <= 20
        /\ Cardinality(PollSleeps) <= 20
        /\ Cardinality(PollSleeps) * 5 <= 105

(* C5.  The liftoff poll of verify_exhaust.run makes at most 20            *)
(* evaluations and at most 20 sleeps of 0.5 s (at most 10.5 s of waiting)  *)
(* whatever the flag does, and it always stops polling: a run that is in   *)
(* the poll eventually leaves it.                                          *)
C5_PollTerminates == []C5_Bounds /\ (InPoll ~> ~InPoll)

\* the flag was false at all 20 evaluations and the poll has stopped
C5_Exhausted ==
    /\ script = "verify_exhaust" /\ pc = 55
    /\ Cardinality(PollEvals) = 20 /\ Cardinality(PollSleeps) = 20
    /\ ~LiftoffSeen

(* C6.  In verify_exhaust.run, if the flag is first true at evaluation j   *)
(* then 1 <= j <= 20, that evaluation is the last one of the run, and      *)
(* exactly j evaluations and j-1 sleeps are made; in particular a flag     *)
(* that is true at the first evaluation costs one evaluation and no sleep. *)
C6_PollExact ==
    script = "verify_exhaust" =>
        \A k \in PollEvals :
            TrueAt(k) =>
                LET j == Cardinality({m \in PollEvals : m <= k})
                IN  /\ j \in 1..20
                    /\ Cardinality(PollEvals) = j
                    /\ Cardinality(PollSleeps) = j - 1
                    /\ \A m \in PollEvals : m < k => ~TrueAt(m)

\* liftoff first seen at the third evaluation, the run past the poll
C6_ThirdEvaluation ==
    /\ script = "verify_exhaust" /\ pc = 55
    /\ LiftoffSeen
    /\ Cardinality(PollEvals) = 3 /\ Cardinality(PollSleeps) = 2

\* a print made after the last evaluation of the poll and before "Ascending..."
PollOutcomeLogged ==
    \E k \in OfKind("print") :
        /\ \A e \in PollEvals : e < k
        /\ \A a \in At(55) : k < a

(* C7.  In verify_exhaust, once the poll is over the log tells its         *)
(* outcome: "Liftoff confirmed!" is logged if and only if the flag was     *)
(* seen true within the 20 evaluations, and otherwise a record of the      *)
(* timeout is logged, so that the two runs can be told apart.              *)
C7_PollOutcomeRecorded ==
    (script = "verify_exhaust" /\ Attempted(55)) =>
        /\ Attempted(50) <=> LiftoffSeen
        /\ PollOutcomeLogged

(* C8.  In verify_exhaust, an exception raised by evaluating the liftoff   *)
(* flag counts as "not yet true": it does not end the run.                 *)
C8_PredicateErrorTolerated ==
    (script = "verify_exhaust" /\ Raised(48)) => outcome # "uncaught"

\* the only calls that raised are screenshots, and one did
OnlyScreenshotFailed ==
    /\ \A k \in Idx : trace[k].res = "raise" => trace[k].kind = "screenshot"
    /\ \E k \in OfKind("screenshot") : trace[k].res = "raise"

(* C9.  In verify_vab_tabs and verify_mission_control, a run in which only *)
(* a page.screenshot call failed ends like a run in which nothing failed:  *)
(* it returns normally, the success message is logged and the browser is   *)
(* closed once.                                                            *)
C9_ScreenshotFailureTolerated ==
    /\ (script = "verify_vab_tabs" /\ Ended /\ OnlyScreenshotFailed)
          => outcome = "returned" /\ Attempted(44) /\ CloseCount = 1
    /\ (script = "verify_mission_control" /\ Ended /\ OnlyScreenshotFailed)
          => outcome = "returned" /\ Attempted(73) /\ CloseCount = 1

(* C10.  In verify_maneuver_planner the passing line ("Width is within     *)
(* limit.") is logged only if the wait for #maneuver-planner-modal         *)
(* succeeded, the content element was found and its bounding box has width *)
(* <= 500; a run that reaches the final screenshot after the modal did not *)
(* appear, the element was missing or the width exceeded 500 has logged    *)
(* the matching failure line and not the passing line.                     *)
C10_PassOnlyIfBothOk ==
    script = "verify_maneuver_planner" =>
        /\ Attempted(47) =>
              /\ Succeeded(35)
              /\ Succeeded(40) /\ ValAt(40) > 0
              /\ Succeeded(43) /\ ValAt(43).some /\ ValAt(43).width <= 500
        /\ (Attempted(58) /\ Raised(35)) => (Attempted(54) /\ ~Attempted(47))
        /\ (Attempted(58) /\ Succeeded(40) /\ ValAt(40) = 0)
              => (Attempted(51) /\ ~Attempted(47))
        /\ (Attempted(58) /\ Succeeded(43) /\ ValAt(43).some /\ ValAt(43).width > 500)
              => (Attempted(49) /\ ~Attempted(47))
        /\ (Attempted(58) /\ Succeeded(43) /\ ~ValAt(43).some) => ~Attempted(47)

\* a passing run: the modal appeared and the width is exactly the limit
C10_PassedAtLimit ==
    /\ script = "verify_maneuver_planner" /\ Ended /\ outcome = "returned"
    /\ Attempted(47) /\ Succeeded(43) /\ ValAt(43).width = 500

----------------------------------------------------------------------------
\* verify_vab_a11y: the source lines of the steps, in the order the claim gives
A11yOrder == <<7, 12, 15, 22, 24, 25, 29, 32, 35, 38, 41, 42, 45, 46, 49, 51>>

A11yKinds ==
    <<"goto", "click", "wait_for_selector", "click", "expect", "expect", "focus",
      "press", "expect", "press", "expect", "expect", "expect", "expect",
      "screenshot", "close">>

(* C11.  In verify_vab_a11y the steps run in the fixed order click first   *)
(* part, two checks of the first part, focus, Tab, check of the focus,     *)
(* Enter, two checks of the second part, two checks of the first part,     *)
(* screenshot, close; a step that fails is the last thing the run does     *)
(* (no later action or check executes) and the run then ends with an       *)
(* uncaught error, never as a run that returned normally.                  *)
C11_FixedOrderAbortOnMismatch ==
    script = "verify_vab_a11y" =>
        /\ Len(trace) <= Len(A11yOrder)
        /\ \A k \in Idx :
              /\ trace[k].line = A11yOrder[k]
              /\ trace[k].kind = A11yKinds[k]
              /\ trace[k].res = "raise" =>
                    (k = Len(trace) /\ Ended /\ outcome = "uncaught")
        /\ (Ended /\ outcome = "returned") =>
              (Len(trace) = Len(A11yOrder) /\ \A k \in Idx : trace[k].res = "ok")

\* the second part was not focused after Tab: the run has ended there
C11_FocusMismatch ==
    /\ script = "verify_vab_a11y" /\ Ended /\ Raised(35)
    /\ Succeeded(24) /\ Succeeded(25) /\ Succeeded(32)

----------------------------------------------------------------------------
\* the lines that state how a run as a whole ended: the success messages of
\* verify_vab_tabs and verify_mission_control, and the messages of the
\* handlers that end a run (verify_exhaust line 15, the outer handlers of
\* verify_script_editor and verify_hud)
StatusLines == {"Verification successful!", "Done!", "Navigation failed", "Error"}

\* the statuses a run has produced: its status lines, and the traceback of
\* an exception that left the script
StatusCount ==
    Cardinality({k \in OfKind("print") : trace[k].sel \in StatusLines})
        + (IF outcome = "uncaught" THEN 1 ELSE 0)

(* C12.  Every run ends with exactly one explicit terminal status on every *)
(* exit path; the success message of verify_vab_tabs is logged at most     *)
(* once and only in runs in which no check failed.                         *)
C12_OneTerminalStatus ==
    /\ Ended => StatusCount = 1
    /\ script = "verify_vab_tabs" =>
          /\ Cardinality(At(44)) <= 1
          /\ Attempted(44) => \A k \in Idx : trace[k].res = "ok"

----------------------------------------------------------------------------
\* the k-th event is a failure that an except clause caught
Caught(k) == trace[k].res = "raise" /\ Prog(script)[trace[k].line].h # 0

(* C13.  Every step failure that is caught is recorded in the log before   *)
(* execution continues: the first thing done after a caught failure is a   *)
(* print by its handler, never another driver call.                        *)
C13_CaughtFailureLogged ==
    \A k \in Idx :
        (Caught(k) /\ k < Len(trace)) => trace[k + 1].kind = "print"

----------------------------------------------------------------------------
\* some event at one of the lines ls succeeded before the k-th event
OkBefore(ls, k) == \E c \in Idx : c < k /\ trace[c].line \in ls /\ trace[c].res = "ok"

(* C14.  In verify_mission_control the wait for #splash-screen hidden      *)
(* starts only after the #start-btn click or its fallback has returned;    *)
(* in verify_maneuver_planner the content-element count, the bounding-box  *)
(* read and the lines reporting on them occur only after the wait for      *)
(* #maneuver-planner-modal visible has succeeded.                          *)
C14_ConditionAfterAction ==
    /\ script = "verify_mission_control" =>
          /\ pc = 32 => (Succeeded(25) \/ Succeeded(28))
          /\ \A w \in At(32) : OkBefore({25, 28}, w)
    /\ script = "verify_maneuver_planner" =>
          /\ pc \in {40, 43, 44, 46} => Succeeded(35)
          /\ \A e \in Idx :
                trace[e].line \in {40, 41, 43, 45, 47, 49, 51} => OkBefore({35}, e)

\* the primary start click failed, the fallback returned, the wait has been made
C14_WaitAfterFallback ==
    /\ script = "verify_mission_control"
    /\ Raised(25) /\ Succeeded(28) /\ Attempted(32)

----------------------------------------------------------------------------
\* the operations on the page: every event but a print, a sleep, an assert
\* on a local variable and the close itself
PageOp(k) == trace[k].kind \notin {"print", "sleep", "assert", "close"}

\* the line of the except clause around the whole run (0: the script has none)
OuterHandler(s) ==
    CASE s = "verify_script_editor" -> 56
      [] s = "verify_hud" -> 47
      [] OTHER -> 0

(* C15.  In every run of every script no page operation is made after      *)
(* browser.close(); and when close is reached through normal completion    *)
(* (not through the handler around the whole run) the last page operation  *)
(* before it is a call of page.screenshot.                                 *)
C15_CaptureThenRelease ==
    \A c \in OfKind("close") :
        /\ \A k \in Idx : k > c => ~PageOp(k)
        /\ ~Attempted(OuterHandler(script)) =>
              \E sh \in OfKind("screenshot") :
                  /\ sh < c
                  /\ \A k \in Idx : (sh < k /\ k < c) => ~PageOp(k)

\* verify_script_editor closed after its second screenshot, the first one having failed
C15_ClosedAfterScreenshot ==
    /\ script = "verify_script_editor" /\ Ended
    /\ Raised(49) /\ Succeeded(53) /\ ~Attempted(56) /\ CloseCount = 1

----------------------------------------------------------------------------
(* C16.  In verify_script_editor 'Modal not found' is reported and         *)
(* no_modal.png is captured only in runs in which the wait for             *)
(* #script-editor-modal visible failed; a run in which that wait succeeded *)
(* never reports 'Modal not found', whatever fails afterwards.             *)
C16_ModalNotFoundOnlyIfNotVisible ==
    script = "verify_script_editor" =>
        /\ (Attempted(52) \/ Attempted(53)) => Raised(36)
        /\ Succeeded(36) => ~Attempted(52)

----------------------------------------------------------------------------
\* verify_mission_control: the overlay was observed with / without class 'visible'
OverlaySeen(b) == Succeeded(40) /\ ValAt(40) = b

\* the onboarding-dismiss sequence runs only after the overlay was seen visible
DismissGated ==
    (Attempted(45) \/ Attempted(47) \/ Attempted(50)) => OverlaySeen(TRUE)

----------------------------------------------------------------------------
\* verify_exhaust: launch(), setThrottle(1.0), timeScale = 10.0, screenshot
ExhaustCommands == <<42, 43, 60, 68>>

\* every event at line a comes before every event at line b
Before(a, b) == \A x \in At(a) : \A y \in At(b) : x < y

ExhaustOrder ==
    /\ Before(42, 43) /\ Before(43, 48) /\ Before(48, 60) /\ Before(60, 68)
    /\ Attempted(43) => Succeeded(42)
    /\ Attempted(48) => Succeeded(43)
    /\ Attempted(60) => Attempted(48)
    /\ Attempted(68) => Succeeded(60)

====
